---------------------------- MODULE Spec2Model ----------------------------
(***************************************************************************)
(* Upload pipeline of macro-analytics: src/main.py (the deployed app,      *)
(* chunked persistence and work-order short-circuit) and src/apis.py (the  *)
(* app with record-level duplicate detection), both on the transactions    *)
(* table of src/models.py.                                                 *)
(*                                                                         *)
(* Text that the code inspects character by character (account numbers,   *)
(* addresses) is a sequence of one-character strings; every other scalar   *)
(* (work order id, date, amount, ...) is an opaque string token, and the   *)
(* JSON null / Python None of such a field is the token None.              *)
(***************************************************************************)
EXTENDS Integers, Sequences, FiniteSets, TLC

(* ------------------------------ bounds -------------------------------- *)

\* number of upload requests in one run
MaxUploads == 2

\* longest raw account number given to mask_account_number on its own
MaxAcctLen == 6

(* ------------------------- program constants -------------------------- *)

INSERT_BATCH_SIZE == 500

(* ------------------------------ values -------------------------------- *)

\* None of a token-valued field
None == "None"

\* None of a character-sequence field (no one-character string equals it)
Absent == <<"None">>

Min(a, b) == IF a <= b THEN a ELSE b

Str10 == <<"1", "2", "3", "4", "5", "6", "7", "8", "9", "0">>

Digits == {"0", "1", "2", "3", "4", "5", "6", "7", "8", "9"}

\* str.lower() on one character, over the characters the model uses
Lower(c) == IF c = "X" THEN "x" ELSE IF c = "A" THEN "a" ELSE c

IsSpace(c) == c = " "

\* str.strip(): drop leading and trailing whitespace
Strip(s) ==
    LET keep == {k \in 1..Len(s) : ~IsSpace(s[k])}
    IN  IF keep = {} THEN <<>>
        ELSE LET lo == CHOOSE k \in keep : \A j \in keep : k <= j
                 hi == CHOOSE k \in keep : \A j \in keep : j <= k
             IN  SubSeq(s, lo, hi)

(* --------------------------- masking policy --------------------------- *)

\* mask_account_number with the flag ignored: four characters shown always
mask_account_number_four(account_number, exists_in_db) ==
    IF account_number = Absent \/ account_number = <<>> THEN Absent
    ELSE LET s == Strip(account_number)
         IN  IF \E k \in 1..Len(s) : Lower(s[k]) = "x" THEN s
             ELSE IF Len(s) <= 4 THEN s
             ELSE [k \in 1..(Len(s) - 4) |-> "X"] \o SubSeq(s, Len(s) - 3, Len(s))

mask_account_number(account_number, exists_in_db) ==
    IF account_number = Absent \/ account_number = <<>> THEN Absent
    ELSE LET s == Strip(account_number)
         IN  IF \E k \in 1..Len(s) : Lower(s[k]) = "x" THEN s
             ELSE IF Len(s) <= 4 THEN s
             ELSE LET digits_to_show == Min(IF exists_in_db THEN 5 ELSE 4, Len(s))
                      last_digits == SubSeq(s, Len(s) - digits_to_show + 1, Len(s))
                      mask_length == Len(s) - digits_to_show
                  IN  [k \in 1..mask_length |-> "X"] \o last_digits


get_masked_account_number(stored, account_number) ==
    IF account_number = Absent \/ account_number = <<>> THEN <<FALSE, Absent>>
    ELSE LET masked_4_digits == mask_account_number(account_number, FALSE)
         IN  IF \E k \in 1..Len(stored) :
                    stored[k].masked_account_number = masked_4_digits
             THEN <<TRUE, mask_account_number(account_number, TRUE)>>
             ELSE <<FALSE, masked_4_digits>>

(* ----------------------------- documents ------------------------------ *)
(* An uploaded file: filename_json (the name ends with ".json"), contents  *)
(* ("empty", "bad_utf8", "bad_json", "array" for JSON whose top level is   *)
(* no object, "object"), the form field client_name, and for an object     *)
(* its sections:                                                           *)
(*   A0000     [t |-> "absent"], [t |-> "other"] or                        *)
(*             [t |-> "dict", wid |-> token]                               *)
(*   Xns       [t |-> "none"], [t |-> "scalar"],                           *)
(*             [t |-> "dict", cols |-> column name :> array] or            *)
(*             [t |-> "list", items |-> <<item, ...>>]                     *)
(*   MetaData  [t |-> "none"] or [t |-> "dict", f |-> key :> value]        *)
(* Of the fourteen Xns columns and five MetaData keys the model keeps the  *)
(* ones the pipeline inspects and one verbatim-copied representative of    *)
(* each kind (reference, ifsc_code); the others are copied the same way.   *)
(***************************************************************************)

XnsColumns == {"date", "description", "credit/debit", "amount", "balance",
               "account_number", "reference", "charges"}

\* key.lower().startswith("bankstatement"), over the keys the documents use
IsMarkerKey(key) == key \in {"bankstatement1", "BankStatement2", "BANKSTATEMENT_3"}

IsWordChar(c) == c \in Digits \/ c \in {"A", "a", "X", "x", "_"}

\* a truthy value that is no string (a JSON number): re.search raises on it
NotAString == <<"number">>

\* re.search(r"\b\d{6}\b", address or ""): the leftmost match, "" if none
Pincode(address) ==
    LET a == IF address = Absent THEN <<>> ELSE address
        hit(p) == /\ \A k \in p..(p + 5) : a[k] \in Digits
                  /\ (p = 1 \/ ~IsWordChar(a[p - 1]))
                  /\ (p + 5 = Len(a) \/ ~IsWordChar(a[p + 6]))
        hits == {p \in 1..(Len(a) - 5) : hit(p)}
    IN  IF hits = {} THEN <<>>
        ELSE LET p == CHOOSE q \in hits : \A r \in hits : q <= r
             IN  SubSeq(a, p, p + 5)

\* the txn dict built for index idx of a columnar object
\* (idx counts from 1 here, from 0 in the code)
ColumnarTxn(client_name, work_order_id, cols, idx, ifsc_code, account_address) ==
    [client_name     |-> client_name,
     work_order_id   |-> work_order_id,
     date            |-> cols["date"][idx],
     description     |-> cols["description"][idx],
     type            |-> cols["credit/debit"][idx],
     amount          |-> cols["amount"][idx],
     balance         |-> cols["balance"][idx],
     account_number  |-> cols["account_number"][idx],
     reference       |-> cols["reference"][idx],
     charges         |-> cols["charges"][idx],
     ifsc_code       |-> ifsc_code,
     account_address |-> account_address,
     pincode         |-> Pincode(account_address)]

NumDates(cols) == IF "date" \in DOMAIN cols THEN Len(cols["date"]) ELSE 0

\* building the txn of index idx raises no exception in the columns
ColumnsReach(cols, required, idx) ==
    \A c \in required : c \in DOMAIN cols /\ idx <= Len(cols[c])

\* the number of iterations 1..n completed before the first one that
\* raises, raising being the iterations that would raise
LeadingOk(raising, n) ==
    IF raising = {} THEN n
    ELSE (CHOOSE k \in raising : \A j \in raising : k <= j) - 1

\* ExtractDict with the loop one iteration short
ExtractDict_one_short(client_name, work_order_id, cols, md) ==
    LET scalar(key, none) == IF key \in DOMAIN md.f THEN md.f[key] ELSE none
        ok(idx) == /\ md.t = "dict"
                   /\ ColumnsReach(cols, XnsColumns, idx)
                   /\ scalar("account_address", Absent) # NotAString
        good == LeadingOk({k \in 1..(NumDates(cols) - 1) : ~ok(k)}, NumDates(cols) - 1)
    IN  [idx \in 1..good |->
            ColumnarTxn(client_name, work_order_id, cols, idx,
                        scalar("ifsc_code", None),
                        scalar("account_address", Absent))]

\* Xns is an object: one try block around the whole loop, so the first
\* exception ends the extraction and keeps the records appended so far
ExtractDict(client_name, work_order_id, cols, md) ==
    LET scalar(key, none) == IF key \in DOMAIN md.f THEN md.f[key] ELSE none
        ok(idx) == /\ md.t = "dict"
                   /\ ColumnsReach(cols, XnsColumns, idx)
                   /\ scalar("account_address", Absent) # NotAString
        good == LeadingOk({k \in 1..NumDates(cols) : ~ok(k)}, NumDates(cols))
    IN  [idx \in 1..good |->
            ColumnarTxn(client_name, work_order_id, cols, idx,
                        scalar("ifsc_code", None),
                        scalar("account_address", Absent))]

\* metadata.get(key)[id] raises no exception (id counts from 0)
MetaReach(md, id) ==
    /\ md.t = "dict"
    /\ \A key \in {"ifsc_code", "account_address"} :
          key \in DOMAIN md.f /\ id + 1 <= Len(md.f[key])
    /\ md.f["account_address"][id + 1] # NotAString

\* one key of a list item: [id, out, raised] after it
ExtractEntry(client_name, work_order_id, md, entry, id) ==
    IF ~IsMarkerKey(entry.key) THEN [id |-> id, out |-> <<>>, raised |-> FALSE]
    ELSE IF entry.value.t # "dict" THEN [id |-> id + 1, out |-> <<>>, raised |-> FALSE]
    ELSE LET cols == entry.value.cols
             n == NumDates(cols)
             ok(idx) == /\ ColumnsReach(cols, XnsColumns \cup {"account_name"}, idx)
                        /\ MetaReach(md, id)
             good == LeadingOk({k \in 1..n : ~ok(k)}, n)
             out == [idx \in 1..good |->
                        ColumnarTxn(client_name, work_order_id, cols, idx,
                                    md.f["ifsc_code"][id + 1],
                                    md.f["account_address"][id + 1])]
         IN  IF good = n THEN [id |-> id + 1, out |-> out, raised |-> FALSE]
             ELSE [id |-> id, out |-> out, raised |-> TRUE]

\* the keys of one item from position k on: the try block is around the
\* whole item, so an exception skips the item's remaining keys
RECURSIVE ExtractEntries(_, _, _, _, _, _)
ExtractEntries(client_name, work_order_id, md, entries, k, id) ==
    IF k > Len(entries) THEN [id |-> id, out |-> <<>>]
    ELSE LET e == ExtractEntry(client_name, work_order_id, md, entries[k], id)
         IN  IF e.raised THEN [id |-> e.id, out |-> e.out]
             ELSE LET rest == ExtractEntries(client_name, work_order_id, md,
                                             entries, k + 1, e.id)
                  IN  [id |-> rest.id, out |-> e.out \o rest.out]

\* ExtractItem with the records of the item put before those of the items
\* before it
ExtractItem_prepended(client_name, work_order_id, md, item, state) ==
    IF item.t # "dict" THEN state
    ELSE LET e == ExtractEntries(client_name, work_order_id, md,
                                 item.entries, 1, state.id)
         IN  [id |-> e.id, out |-> e.out \o state.out]

\* one item of the list: [id, out] after it, all_transactions being out
ExtractItem(client_name, work_order_id, md, item, state) ==
    IF item.t # "dict" THEN state
    ELSE LET e == ExtractEntries(client_name, work_order_id, md,
                                 item.entries, 1, state.id)
         IN  [id |-> e.id, out |-> state.out \o e.out]

\* the loop over the list after its first n items: [id, out]
RECURSIVE AfterItems(_, _, _, _, _)
AfterItems(client_name, work_order_id, md, items, n) ==
    IF n = 0 THEN [id |-> 0, out |-> <<>>]
    ELSE ExtractItem(client_name, work_order_id, md, items[n],
                     AfterItems(client_name, work_order_id, md, items, n - 1))

\* Xns is a list: the items from position j on
RECURSIVE ExtractList(_, _, _, _, _, _)
ExtractList(client_name, work_order_id, md, items, j, state) ==
    IF j > Len(items) THEN state.out
    ELSE ExtractList(client_name, work_order_id, md, items, j + 1,
                     ExtractItem(client_name, work_order_id, md, items[j], state))

\* data.get("A0000", {}).get("Workorder ID", None)
WorkOrderId(doc) == IF doc.A0000.t = "dict" THEN doc.A0000.wid ELSE None

\* a value Python treats as false where the code tests "if not value"
Falsy(token) == token = None \/ token = ""

\* XnsFalsy with the test "xns_data is None" in place of "not xns_data"
XnsFalsy_none_only(xns) == xns.t = "none"

XnsFalsy(xns) ==
    \/ xns.t = "none"
    \/ xns.t = "dict" /\ DOMAIN xns.cols = {}
    \/ xns.t = "list" /\ xns.items = <<>>

\* all_transactions after the extraction (empty for a document that is
\* rejected before it)
Extract(doc) ==
    IF doc.Xns.t = "dict"
    THEN ExtractDict(doc.client_name, WorkOrderId(doc), doc.Xns.cols, doc.MetaData)
    ELSE IF doc.Xns.t = "list"
    THEN ExtractList(doc.client_name, WorkOrderId(doc), doc.MetaData,
                     doc.Xns.items, 1, [id |-> 0, out |-> <<>>])
    ELSE <<>>

\* datetime.fromisoformat(s.replace("Z", "+00:00")); None stands for an exception
FromIsoFormat(s) ==
    CASE s = "2024-01-01"           -> "2024-01-01 00:00:00"
      [] s = "2024-01-02"           -> "2024-01-02 00:00:00"
      [] s = "2024-01-01T00:00:00Z" -> "2024-01-01 00:00:00+00:00"
      [] OTHER                      -> None

\* datetime.strptime(s, "%d/%m/%Y"); None stands for an exception
StrpTime(s) ==
    CASE s = "01/01/2024" -> "2024-01-01 00:00:00"
      [] s = "02/01/2024" -> "2024-01-02 00:00:00"
      [] OTHER            -> None

\* ParseDate with the raw value kept when neither format parses
ParseDate_raw(s) ==
    IF Falsy(s) THEN None
    ELSE IF FromIsoFormat(s) # None THEN FromIsoFormat(s)
    ELSE IF StrpTime(s) # None THEN StrpTime(s)
    ELSE s

\* the date parsing of the record loop: ISO first, then day/month/year,
\* then unset
ParseDate(s) ==
    IF Falsy(s) THEN None
    ELSE IF FromIsoFormat(s) # None THEN FromIsoFormat(s)
    ELSE StrpTime(s)

\* row.pop(key, None) left out
Pop_kept(row, key) == row

\* row.pop(key, None)
Pop(row, key) == [k \in DOMAIN row \ {key} |-> row[k]]

SetKey(row, key, value) ==
    [k \in DOMAIN row \cup {key} |-> IF k = key THEN value ELSE row[k]]

(* ------------------------- the files uploaded ------------------------- *)

Acct1 == Str10

Acct2 == <<"9", "9", "8", "8", "7", "7">>

Addr1 == <<"A", " ", "5", "6", "0", "0", "0", "1">>

\* the columnar object with the eight modelled columns
Columns(date, description, type, amount, balance, account_number, reference, charges) ==
    ("date" :> date) @@ ("description" :> description) @@ ("credit/debit" :> type)
    @@ ("amount" :> amount) @@ ("balance" :> balance)
    @@ ("account_number" :> account_number) @@ ("reference" :> reference)
    @@ ("charges" :> charges)

Object(a0000, xns, md) ==
    [filename_json |-> TRUE, contents |-> "object", client_name |-> "acme",
     A0000 |-> a0000, Xns |-> xns, MetaData |-> md]

NotObject(filename_json, contents) ==
    [filename_json |-> filename_json, contents |-> contents, client_name |-> "acme",
     A0000 |-> [t |-> "absent"], Xns |-> [t |-> "none"], MetaData |-> [t |-> "none"]]

WorkOrder(wid) == [t |-> "dict", wid |-> wid]

ScalarMeta == [t |-> "dict", f |-> [ifsc_code |-> "IFSC1", account_address |-> Addr1]]

\* two transactions of one account; the second date is day/month/year
TwoTxns ==
    [t |-> "dict", cols |->
        Columns(<<"2024-01-01", "02/01/2024">>, <<"salary", "rent">>,
                <<"credit", "debit">>, <<"100.0", "50.0">>, <<"100.0", "50.0">>,
                <<Acct1, Acct1>>, <<"r1", None>>, <<None, "1.0">>)]

\* one transaction of account a
OneTxn(a, amount) ==
    [t |-> "dict", cols |->
        Columns(<<"2024-01-02">>, <<"fee">>, <<"debit">>, <<amount>>, <<None>>,
                <<a>>, <<"r2">>, <<None>>)]

\* n transactions of one account, told apart by their reference
ManyTxns(n) ==
    [t |-> "dict", cols |->
        Columns([k \in 1..n |-> "2024-01-01"], [k \in 1..n |-> "bulk"],
                [k \in 1..n |-> "credit"], [k \in 1..n |-> "1.0"],
                [k \in 1..n |-> None], [k \in 1..n |-> Acct2],
                [k \in 1..n |-> ToString(k)], [k \in 1..n |-> None])]

NoDates == [t |-> "dict", cols |-> [description |-> <<"salary">>]]

\* the nested-list dialect: a non-object item, then an item with a marker key
NestedList ==
    [t |-> "list", items |->
        << [t |-> "other"],
           [t |-> "dict", entries |->
               << [key |-> "source", value |-> [t |-> "other"]],
                  [key |-> "BankStatement2", value |->
                      [t |-> "dict", cols |->
                          Columns(<<"2024-01-01">>, <<"salary">>, <<"credit">>,
                                  <<"100.0">>, <<"100.0">>, <<Acct1>>, <<"r1">>,
                                  <<None>>)
                          @@ ("account_name" :> <<"holder">>)]] >>] >>]

ArrayMeta ==
    [t |-> "dict", f |-> [ifsc_code |-> <<"IFSC1">>, account_address |-> <<Addr1>>]]

EmptyObject == [t |-> "dict", cols |-> <<>>]

EmptyList == [t |-> "list", items |-> <<>>]

\* an object none of whose fields is an array
NoArrays == [t |-> "dict", cols |-> [note |-> "n"]]

\* a list none of whose elements has a marker key
NoMarker ==
    [t |-> "list", items |->
        << [t |-> "other"],
           [t |-> "dict", entries |-> << [key |-> "source", value |-> [t |-> "other"]] >>] >>]

\* arrays of one length, but not every column the extraction reads
FewColumns ==
    [t |-> "dict", cols |-> [date |-> <<"2024-01-01">>, description |-> <<"salary">>]]

\* three dates, the amount column one entry short
ShortAmount ==
    [t |-> "dict", cols |->
        Columns(<<"2024-01-01", "2024-01-02", "2024-01-03">>, <<"a", "b", "c">>,
                <<"credit", "credit", "debit">>, <<"1.0", "2.0">>,
                <<None, None, None>>, <<Acct2, Acct2, Acct2>>,
                <<"s1", "s2", "s3">>, <<None, None, None>>)]

\* the columnar object of one statement of the nested-list dialect
Statement(reference, names) ==
    Columns(<<"2024-01-01">>, <<"salary">>, <<"credit">>, <<"100.0">>, <<"100.0">>,
            <<Acct1>>, <<reference>>, <<None>>)
    @@ ("account_name" :> names)

\* a non-object, an object without a marker key, then three marker-bearing
\* elements: one whose value is no object, one whose account_name array is
\* empty (its extraction raises), one that is well formed
MixedList ==
    [t |-> "list", items |->
        << [t |-> "other"],
           [t |-> "dict", entries |-> << [key |-> "source", value |-> [t |-> "other"]] >>],
           [t |-> "dict", entries |->
               << [key |-> "bankstatement1", value |-> [t |-> "other"]] >>],
           [t |-> "dict", entries |->
               << [key |-> "BankStatement2", value |->
                      [t |-> "dict", cols |-> Statement("m2", <<>>)]] >>],
           [t |-> "dict", entries |->
               << [key |-> "BANKSTATEMENT_3", value |->
                      [t |-> "dict", cols |-> Statement("m3", <<"holder">>)]] >>] >>]

ThreeMeta ==
    [t |-> "dict", f |-> [ifsc_code |-> <<"IFSC1", "IFSC2", "IFSC3">>,
                          account_address |-> <<Addr1, Addr1, Addr1>>]]

NumberMeta == [t |-> "dict", f |-> [ifsc_code |-> "IFSC1", account_address |-> NotAString]]

\* the transaction of OneTxn(a, "7.0") with every compared field set
OneTxnAll(a) ==
    [t |-> "dict", cols |->
        Columns(<<"2024-01-02">>, <<"fee">>, <<"debit">>, <<"7.0">>, <<"5.0">>,
                <<a>>, <<"r2">>, <<"1.0">>)]

\* the same transaction with a date that does not parse, an empty
\* description and no reference
OneTxnFew(a) ==
    [t |-> "dict", cols |->
        Columns(<<"not-a-date">>, <<"">>, <<"debit">>, <<"7.0">>, <<None>>,
                <<a>>, <<None>>, <<None>>)]

\* two transactions of two accounts; the second date does not parse
TwoAccounts ==
    [t |-> "dict", cols |->
        Columns(<<"2024-01-01T00:00:00Z", "31/31/2024">>, <<"in", "out">>,
                <<"credit", "debit">>, <<"3.0", "4.0">>, <<"3.0", None>>,
                <<Acct1, Acct2>>, <<"t1", "t2">>, <<None, None>>)]

\* the columnar object of a statement with two transactions
Statement2(first, second) ==
    Columns(<<"2024-01-01", "2024-01-02">>, <<"in", "out">>, <<"credit", "debit">>,
            <<"3.0", "4.0">>, <<None, None>>, <<Acct1, Acct1>>, <<first, second>>,
            <<None, None>>)
    @@ ("account_name" :> <<"holder", "holder">>)

\* two statements of two transactions each, other elements around them
TwoStatements ==
    [t |-> "list", items |->
        << [t |-> "dict", entries |->
               << [key |-> "bankstatement1", value |->
                      [t |-> "dict", cols |-> Statement2("s1", "s2")]] >>],
           [t |-> "other"],
           [t |-> "dict", entries |-> << [key |-> "source", value |-> [t |-> "other"]] >>],
           [t |-> "dict", entries |->
               << [key |-> "BankStatement2", value |->
                      [t |-> "dict", cols |-> Statement2("s3", "s4")]] >>] >>]

TwoMeta ==
    [t |-> "dict", f |-> [ifsc_code |-> <<"IFSC1", "IFSC2">>,
                          account_address |-> <<Addr1, Addr1>>]]

Docs ==
    << Object(WorkOrder("W1"), TwoTxns, ScalarMeta),               \* 1
       Object([t |-> "absent"], TwoTxns, ScalarMeta),              \* 2
       Object(WorkOrder("W2"), OneTxn(Acct1, "7.0"), ScalarMeta),  \* 3
       Object(WorkOrder(""), OneTxn(Acct2, "7.0"), ScalarMeta),    \* 4
       NotObject(TRUE, "empty"),                                   \* 5
       Object(WorkOrder("W1"), [t |-> "none"], ScalarMeta),        \* 6
       Object(WorkOrder("W1"), NoDates, ScalarMeta),               \* 7
       Object(WorkOrder("W3"), NestedList, ArrayMeta),             \* 8
       Object(WorkOrder("W4"), ManyTxns(1200), ScalarMeta),        \* 9
       Object(WorkOrder("W5"), ManyTxns(501), ScalarMeta),         \* 10
       NotObject(TRUE, "bad_json"),                                \* 11
       NotObject(TRUE, "bad_utf8"),                                \* 12
       NotObject(TRUE, "array"),                                   \* 13
       NotObject(FALSE, "object"),                                 \* 14
       Object([t |-> "other"], TwoTxns, ScalarMeta),               \* 15
       Object(WorkOrder("W1"), [t |-> "scalar"], ScalarMeta),      \* 16
       Object([t |-> "absent"], ManyTxns(1000), ScalarMeta),       \* 17
       Object(WorkOrder("W6"), ManyTxns(500), ScalarMeta),         \* 18
       Object(WorkOrder("W1"), EmptyObject, ScalarMeta),           \* 19
       Object(WorkOrder("W1"), EmptyList, ScalarMeta),             \* 20
       Object(WorkOrder("W1"), NoMarker, ArrayMeta),               \* 21
       Object(WorkOrder("W1"), NoArrays, ScalarMeta),              \* 22
       Object(WorkOrder("W7"), FewColumns, ScalarMeta),            \* 23
       Object(WorkOrder("W8"), ShortAmount, ScalarMeta),           \* 24
       Object(WorkOrder("W9"), OneTxn(Acct2, None), ScalarMeta),   \* 25
       Object(WorkOrder("W10"), MixedList, ThreeMeta),             \* 26
       Object(WorkOrder("W11"), TwoTxns, NumberMeta),              \* 27
       Object(WorkOrder("W12"), TwoTxns, [t |-> "none"]),          \* 28
       Object([t |-> "absent"], OneTxnAll(Acct1), ScalarMeta),     \* 29
       Object([t |-> "absent"], OneTxnFew(Acct1), ScalarMeta),     \* 30
       Object([t |-> "absent"], TwoAccounts, ScalarMeta),          \* 31
       Object(WorkOrder("W13"), TwoStatements, TwoMeta) >>         \* 32

\* the files of the runs with concurrent and with sequential uploads
Catalog == {1, 2, 3, 4, 5, 6, 7, 8}

\* the files of the runs on rejected and on partly extractable documents
EdgeCatalog == {1, 5, 6, 7, 8, 11, 12, 13, 14, 15, 16,
                19, 20, 21, 22, 23, 24, 25, 26, 27, 28}

\* the files of the runs on duplicate records, dates and account numbers
RecordCatalog == {1, 3, 29, 30, 31}

\* the files of the runs on the order of the records
OrderCatalog == {1, 10, 31, 32}

\* the files of the runs that persist more than one chunk
BulkCatalog == {9, 10, 17, 18}

(* ------------------------------ responses ----------------------------- *)

NoResponse == [kind |-> "none"]

HTTPException(status_code, detail) ==
    [kind |-> "HTTPException", status_code |-> status_code, detail |-> detail]

\* message carries the three counts the message text is built from
\* (0 where the text leaves the count out)
FileUploadResponse(records_processed, records_saved, duplicates_skipped, failed) ==
    [kind |-> "FileUploadResponse",
     message |-> [saved |-> records_saved, duplicates_skipped |-> duplicates_skipped,
                  failed |-> failed],
     records_processed |-> records_processed,
     records_saved |-> records_saved]

\* the exception raised before the record loop, NoResponse if none is;
\* empty_status is the status code of the "no transaction data" exception
Rejection(doc, all_transactions, empty_status) ==
    IF ~doc.filename_json
        THEN HTTPException(400, "Invalid file type. Only JSON files are accepted.")
    ELSE IF doc.contents = "empty"
        THEN HTTPException(400, "Uploaded file is empty")
    ELSE IF doc.contents = "bad_json"
        THEN HTTPException(400, "Invalid JSON format")
    ELSE IF doc.contents \in {"bad_utf8", "array"} \/ doc.A0000.t = "other"
        THEN HTTPException(500, "Error processing file")
    ELSE IF XnsFalsy(doc.Xns)
        THEN HTTPException(400, "Required key 'Xns' not found in JSON file")
    ELSE IF doc.Xns.t \notin {"dict", "list"}
        THEN HTTPException(400, "Unexpected type for 'Xns'")
    ELSE IF all_transactions = <<>>
        THEN HTTPException(empty_status, "No transaction data found in the JSON structure")
    ELSE NoResponse

(* ------------------------------- storage ------------------------------ *)

\* the columns of the transactions table that the model keeps
TableColumns == {"work_order_id", "client_name", "date", "description", "amount",
                 "type", "balance", "reference", "charges", "masked_account_number",
                 "ifsc_code", "pincode"}

\* insert(Transaction).values(batch) raises: a key that is no column, or a
\* NULL in the NOT NULL column amount
InsertRejected(batch) ==
    \E k \in 1..Len(batch) :
        \/ ~(DOMAIN batch[k] \subseteq TableColumns)
        \/ batch[k].amount = None

\* get_existing_work_order_ids with the filter on the ids inverted
get_existing_work_order_ids_inverted(stored, work_order_ids) ==
    LET unique_ids == {work_order_ids[k] : k \in 1..Len(work_order_ids)} \cap {None, ""}
    IN  {wid \in unique_ids : \E k \in 1..Len(stored) : stored[k].work_order_id = wid}

get_existing_work_order_ids(stored, work_order_ids) ==
    LET unique_ids == {work_order_ids[k] : k \in 1..Len(work_order_ids)} \ {None, ""}
    IN  {wid \in unique_ids : \E k \in 1..Len(stored) : stored[k].work_order_id = wid}

\* is_duplicate_transaction with a filter on every field, present or not
is_duplicate_transaction_full_row(stored, txn) ==
    \E k \in 1..Len(stored) :
        LET row == stored[k]
        IN  /\ row.date = txn.date
            /\ row.amount = txn.amount
            /\ row.balance = txn.balance
            /\ row.charges = txn.charges
            /\ row.type = txn.type
            /\ row.masked_account_number = txn.masked_account_number
            /\ row.description = txn.description
            /\ row.reference = txn.reference

\* the record-level duplicate query: one filter per field present in txn
is_duplicate_transaction(stored, txn) ==
    \E k \in 1..Len(stored) :
        LET row == stored[k]
        IN  /\ Falsy(txn.date)           \/ row.date = txn.date
            /\ txn.amount = None         \/ row.amount = txn.amount
            /\ txn.balance = None        \/ row.balance = txn.balance
            /\ txn.charges = None        \/ row.charges = txn.charges
            /\ Falsy(txn.type)           \/ row.type = txn.type
            /\ txn.masked_account_number \in {Absent, <<>>}
                  \/ row.masked_account_number = txn.masked_account_number
            /\ Falsy(txn.description)    \/ row.description = txn.description
            /\ Falsy(txn.reference)      \/ row.reference = txn.reference

(* -------------------------------- state ------------------------------- *)

VARIABLES
    transactions,   \* the rows of the transactions table, in insertion order
    upload,         \* per request: the handler's locals, its position and the
                    \* number of read queries it has sent to storage
    mask            \* the run of mask_account_number on an input of its own

vars == <<transactions, upload, mask>>

Uploads == 1..MaxUploads

\* a request that has not arrived yet
Idle ==
    [pc                     |-> "idle",
     app                    |-> "none",
     file                   |-> 0,
     total_transactions     |-> 0,
     processed_transactions |-> <<>>,
     errors                 |-> 0,
     duplicates_skipped     |-> 0,
     first_masked_account   |-> Absent,
     i                      |-> 0,
     records_saved          |-> 0,
     queries                |-> 0,
     response               |-> NoResponse]

MaskIdle ==
    [stage |-> 0, account_number |-> Absent, exists_in_db |-> FALSE, masked |-> Absent]

Init ==
    /\ transactions = <<>>
    /\ upload = [u \in Uploads |-> Idle]
    /\ mask = MaskIdle

\* requests are numbered in the order they arrive
Arrives(u) ==
    /\ upload[u].pc = "idle"
    /\ IF u = 1 THEN TRUE ELSE upload[u - 1].pc # "idle"

Returned(app, d, total, duplicates, errors, saved, response) ==
    [Idle EXCEPT !.pc = "done", !.app = app, !.file = d,
                 !.total_transactions = total, !.duplicates_skipped = duplicates,
                 !.errors = errors, !.records_saved = saved, !.response = response]

(* --------------------------- main.upload_file ------------------------- *)

\* the record loop of main.py: parse the date, set the masked account
\* number, drop the raw account number and the raw address
MainProcess(row, first_masked_account) ==
    Pop(Pop(SetKey(SetKey(row, "date", ParseDate(row.date)),
                   "masked_account_number", first_masked_account),
            "account_number"),
        "account_address")

\* SkipAll with duplicates_skipped left at 0
SkipAll_uncounted(d, total_transactions) ==
    Returned("main", d, total_transactions, 0, 0, 0,
             FileUploadResponse(total_transactions, 0, 0, 0))

\* the work order is already stored: every record is skipped as a duplicate,
\* nothing is inserted, and the response is returned
SkipAll(d, total_transactions) ==
    Returned("main", d, total_transactions, total_transactions, 0, 0,
             FileUploadResponse(total_transactions, 0, total_transactions, 0))

\* the handler from its start to its first insert statement, or to its end
\* when it has nothing to insert: the locals at that point
MainHandler(d, doc, all_transactions, stored) ==
    LET rejection == Rejection(doc, all_transactions, 200)
        total_transactions == Len(all_transactions)
        work_order_id == WorkOrderId(doc)
        first_masked_account ==
            mask_account_number(all_transactions[1].account_number, FALSE)
        existing_work_order_ids ==
            get_existing_work_order_ids(stored,
                [k \in 1..total_transactions |-> all_transactions[k].work_order_id])
        queries == IF Falsy(work_order_id) THEN 0 ELSE 1
    IN  IF rejection.kind # "none"
        THEN Returned("main", d, 0, 0, 0, 0, rejection)
        ELSE IF ~Falsy(work_order_id) /\ work_order_id \in existing_work_order_ids
        THEN [SkipAll(d, total_transactions) EXCEPT !.queries = queries]
        ELSE [Idle EXCEPT !.pc = "insert", !.app = "main", !.file = d,
                          !.queries = queries,
                          !.total_transactions = total_transactions,
                          !.first_masked_account = first_masked_account,
                          !.processed_transactions =
                              [k \in 1..total_transactions |->
                                  MainProcess(all_transactions[k], first_masked_account)]]

\* a request to main.py arrives
Upload(u, d) ==
    /\ Arrives(u)
    /\ upload' = [upload EXCEPT ![u] =
                     MainHandler(d, Docs[d], Extract(Docs[d]), transactions)]
    /\ UNCHANGED <<transactions, mask>>

\* Batch with the slice one row short
Batch_short(rows, i) == SubSeq(rows, i + 1, Min(i + INSERT_BATCH_SIZE - 1, Len(rows)))

\* the batch of the loop iteration at offset i
Batch(rows, i) == SubSeq(rows, i + 1, Min(i + INSERT_BATCH_SIZE, Len(rows)))

\* one iteration of the insert loop: execute, commit, count; after the last
\* one the response is returned
InsertBatch(u) ==
    LET r == upload[u]
        batch == Batch(r.processed_transactions, r.i)
        records_saved == r.records_saved + Len(batch)
    IN  /\ r.pc = "insert" /\ r.app = "main"
        /\ ~InsertRejected(batch)
        /\ transactions' = transactions \o batch
        /\ upload' = [upload EXCEPT ![u] =
              IF r.i + INSERT_BATCH_SIZE < Len(r.processed_transactions)
              THEN [r EXCEPT !.i = r.i + INSERT_BATCH_SIZE,
                             !.records_saved = records_saved]
              ELSE [r EXCEPT !.pc = "done", !.records_saved = records_saved,
                             !.processed_transactions = <<>>,
                             !.response =
                                 FileUploadResponse(r.total_transactions, records_saved,
                                                    r.duplicates_skipped, r.errors)]]
        /\ UNCHANGED mask

\* the insert or its commit raises (the statement is rejected, or storage
\* fails): rollback of the open transaction, then the storage error
InsertFails(u) ==
    LET r == upload[u]
    IN  /\ r.pc = "insert" /\ r.app = "main"
        /\ upload' = [upload EXCEPT ![u] =
              [r EXCEPT !.pc = "done",
                        !.response = HTTPException(500, "Database error")]]
        /\ UNCHANGED <<transactions, mask>>

(* --------------------------- apis.upload_file ------------------------- *)

\* the record loop of apis.py up to the duplicate query
ApisPrepare(row, first_masked_account) ==
    SetKey(SetKey(row, "date", ParseDate(row.date)),
           "masked_account_number", first_masked_account)

\* the rows the loop keeps, stripped of the raw fields
ApisKept(rows, stored) ==
    LET kept == SelectSeq(rows, LAMBDA row : ~is_duplicate_transaction(stored, row))
    IN  [k \in 1..Len(kept) |-> Pop(Pop(kept[k], "account_number"), "account_address")]

\* ApisLoop with every record counted as a duplicate, as on the short-circuit
\* of main.py
ApisLoop_all_duplicates(d, total, first_masked_account, processed_transactions) ==
    IF processed_transactions = <<>>
    THEN [Returned("apis", d, total, total, 0, 0, FileUploadResponse(total, 0, total, 0))
             EXCEPT !.queries = total]
    ELSE [Idle EXCEPT !.pc = "insert", !.app = "apis", !.file = d,
                      !.queries = total,
                      !.total_transactions = total,
                      !.duplicates_skipped = total,
                      !.first_masked_account = first_masked_account,
                      !.processed_transactions = processed_transactions]

ApisLoop(d, total, first_masked_account, processed_transactions) ==
    IF processed_transactions = <<>>
    THEN [Returned("apis", d, total, total, 0, 0, FileUploadResponse(total, 0, total, 0))
             EXCEPT !.queries = total]
    ELSE [Idle EXCEPT !.pc = "insert", !.app = "apis", !.file = d,
                      !.queries = total,
                      !.total_transactions = total,
                      !.duplicates_skipped = total - Len(processed_transactions),
                      !.first_masked_account = first_masked_account,
                      !.processed_transactions = processed_transactions]

ApisHandler(d, doc, all_transactions, stored) ==
    LET rejection == Rejection(doc, all_transactions, 400)
        first_masked_account ==
            mask_account_number(all_transactions[1].account_number, FALSE)
    IN  IF rejection.kind # "none"
        THEN Returned("apis", d, 0, 0, 0, 0, rejection)
        ELSE ApisLoop(d, Len(all_transactions), first_masked_account,
                      ApisKept([k \in 1..Len(all_transactions) |->
                                   ApisPrepare(all_transactions[k], first_masked_account)],
                               stored))

\* a request to apis.py arrives
ApisUpload(u, d) ==
    /\ Arrives(u)
    /\ upload' = [upload EXCEPT ![u] =
                     ApisHandler(d, Docs[d], Extract(Docs[d]), transactions)]
    /\ UNCHANGED <<transactions, mask>>

\* the single insert of apis.py and its commit, then the response
ApisInsert(u) ==
    LET r == upload[u]
        records_saved == Len(r.processed_transactions)
    IN  /\ r.pc = "insert" /\ r.app = "apis"
        /\ ~InsertRejected(r.processed_transactions)
        /\ transactions' = transactions \o r.processed_transactions
        /\ upload' = [upload EXCEPT ![u] =
              [r EXCEPT !.pc = "done", !.records_saved = records_saved,
                        !.response =
                            FileUploadResponse(r.total_transactions, records_saved,
                                               r.duplicates_skipped, r.errors)]]
        /\ UNCHANGED mask

ApisInsertFails(u) ==
    LET r == upload[u]
    IN  /\ r.pc = "insert" /\ r.app = "apis"
        /\ upload' = [upload EXCEPT ![u] =
              [r EXCEPT !.pc = "done",
                        !.response = HTTPException(500, "Database error")]]
        /\ UNCHANGED <<transactions, mask>>

(* --------------------------- specifications --------------------------- *)

\* requests of both apps, overlapping freely
Next ==
    \E u \in Uploads :
        \/ \E d \in Catalog : Upload(u, d)
        \/ InsertBatch(u)
        \/ InsertFails(u)
        \/ \E d \in Catalog : ApisUpload(u, d)
        \/ ApisInsert(u)
        \/ ApisInsertFails(u)

Spec == Init /\ [][Next]_vars

\* no request is between its arrival and its response
Quiet == \A v \in Uploads : upload[v].pc \in {"idle", "done"}

\* requests of both apps, one after the other
NextSeq ==
    \E u \in Uploads :
        \/ \E d \in Catalog : Quiet /\ Upload(u, d)
        \/ InsertBatch(u)
        \/ InsertFails(u)
        \/ \E d \in Catalog : Quiet /\ ApisUpload(u, d)
        \/ ApisInsert(u)
        \/ ApisInsertFails(u)

SpecSeq == Init /\ [][NextSeq]_vars

\* requests of both apps with rejected and partly extractable files, one
\* after the other
NextEdge ==
    \E u \in Uploads :
        \/ \E d \in EdgeCatalog : Quiet /\ Upload(u, d)
        \/ InsertBatch(u)
        \/ InsertFails(u)
        \/ \E d \in EdgeCatalog : Quiet /\ ApisUpload(u, d)
        \/ ApisInsert(u)
        \/ ApisInsertFails(u)

SpecEdge == Init /\ [][NextEdge]_vars

\* requests of both apps with files whose records overlap, one after the
\* other
NextRecords ==
    \E u \in Uploads :
        \/ \E d \in RecordCatalog : Quiet /\ Upload(u, d)
        \/ InsertBatch(u)
        \/ InsertFails(u)
        \/ \E d \in RecordCatalog : Quiet /\ ApisUpload(u, d)
        \/ ApisInsert(u)
        \/ ApisInsertFails(u)

SpecRecords == Init /\ [][NextRecords]_vars

\* requests to main.py with files of both dialects and of more than one
\* chunk, one after the other
NextOrder ==
    \E u \in Uploads :
        \/ \E d \in OrderCatalog : Quiet /\ Upload(u, d)
        \/ InsertBatch(u)
        \/ InsertFails(u)

SpecOrder == Init /\ [][NextOrder]_vars

\* requests to main.py with files of more than one chunk, one after the other
NextBulk ==
    \E u \in Uploads :
        \/ \E d \in BulkCatalog : Quiet /\ Upload(u, d)
        \/ InsertBatch(u)
        \/ InsertFails(u)

SpecBulk == Init /\ [][NextBulk]_vars

(* ------------------- mask_account_number on its own ------------------- *)

MaskChars == {"1", "2", "x", "X", " "}

\* every string of at most MaxAcctLen characters, and None
AccountNumbers ==
    {Absent} \cup UNION {[1..n -> MaskChars] : n \in 0..MaxAcctLen}

InitMask ==
    /\ transactions = <<>>
    /\ upload = [u \in Uploads |-> Idle]
    /\ mask \in {[MaskIdle EXCEPT !.account_number = a] : a \in AccountNumbers}

\* mask the input
Mask(exists_in_db) ==
    /\ mask.stage = 0
    /\ mask' = [mask EXCEPT !.stage = 1, !.exists_in_db = exists_in_db,
                            !.masked = mask_account_number(mask.account_number,
                                                           exists_in_db)]
    /\ UNCHANGED <<transactions, upload>>

\* mask the masked string again
MaskAgain(exists_in_db) ==
    /\ mask.stage = 1
    /\ mask' = [stage |-> 2, account_number |-> mask.masked,
                exists_in_db |-> exists_in_db,
                masked |-> mask_account_number(mask.masked, exists_in_db)]
    /\ UNCHANGED <<transactions, upload>>

NextMask ==
    \E exists_in_db \in BOOLEAN :
        \/ Mask(exists_in_db)
        \/ MaskAgain(exists_in_db)

SpecMask == InitMask /\ [][NextMask]_vars

(* ------------------------------- claims ------------------------------- *)

Rows(seq) == {seq[k] : k \in 1..Len(seq)}

\* request u arrives in this step
Arriving(u) == upload[u].pc = "idle" /\ upload'[u].pc # "idle"

\* request u has returned a FileUploadResponse
Succeeded(u) == upload[u].pc = "done" /\ upload[u].response.kind = "FileUploadResponse"

\* the saved count the caller can read in the response, -1 if it has none
ReportedSaved(response) ==
    IF response.kind = "FileUploadResponse" THEN response.records_saved ELSE -1

\* the file passes every check of the handler before the record loop
Accepted(d, empty_status) == Rejection(Docs[d], Extract(Docs[d]), empty_status).kind = "none"

\* C1: with requests to main.py handled one after the other, once an upload
\* of a file with a non-empty work order id has returned its response, a
\* later upload of the same file leaves storage as it is and returns
\* records_saved = 0.
C1_ReuploadSavesNothing ==
    [][\A u1, u2 \in Uploads :
          (/\ Succeeded(u1) /\ upload[u1].app = "main"
           /\ Arriving(u2) /\ upload'[u2].app = "main"
           /\ upload'[u2].file = upload[u1].file
           /\ ~Falsy(WorkOrderId(Docs[upload[u1].file])))
          => /\ transactions' = transactions
             /\ upload'[u2].pc = "done"
             /\ upload'[u2].response.kind = "FileUploadResponse"
             /\ upload'[u2].response.records_saved = 0]_vars

C1_Witness ==
    \E u1, u2 \in Uploads :
        /\ u1 < u2 /\ Succeeded(u1) /\ Succeeded(u2)
        /\ upload[u1].app = "main" /\ upload[u2].app = "main"
        /\ upload[u1].file = upload[u2].file
        /\ ~Falsy(WorkOrderId(Docs[upload[u1].file]))
        /\ upload[u1].records_saved > 0
        /\ upload[u2].response.records_saved = 0
        /\ Len(transactions) = upload[u1].records_saved

\* C2: when the work order id of an upload to main.py already has stored
\* rows, the upload counts every extracted record as a duplicate, hands no
\* record to the insert loop, returns at once and leaves the stored rows as
\* they are.
C2_ShortCircuit ==
    [][\A u \in Uploads :
          (/\ Arriving(u) /\ upload'[u].app = "main"
           /\ Accepted(upload'[u].file, 200)
           /\ ~Falsy(WorkOrderId(Docs[upload'[u].file]))
           /\ \E k \in 1..Len(transactions) :
                 transactions[k].work_order_id = WorkOrderId(Docs[upload'[u].file]))
          => LET n == Len(Extract(Docs[upload'[u].file]))
             IN  /\ upload'[u].duplicates_skipped = n
                 /\ upload'[u].processed_transactions = <<>>
                 /\ upload'[u].pc = "done"
                 /\ upload'[u].response = FileUploadResponse(n, 0, n, 0)
                 /\ transactions' = transactions]_vars

C2_Witness ==
    \E u \in Uploads :
        /\ Succeeded(u) /\ upload[u].app = "main"
        /\ upload[u].duplicates_skipped = upload[u].total_transactions
        /\ upload[u].total_transactions > 0
        /\ upload[u].records_saved = 0
        /\ \E k \in 1..Len(transactions) :
              transactions[k].work_order_id = WorkOrderId(Docs[upload[u].file])

\* the rows main.py stores for file d when it stores all of them
MainRows(d) ==
    LET all_transactions == Extract(Docs[d])
        first_masked_account ==
            mask_account_number(all_transactions[1].account_number, FALSE)
    IN  {MainProcess(all_transactions[k], first_masked_account) :
            k \in 1..Len(all_transactions)}

\* C3: an upload to main.py is skipped as an already stored work order only
\* if every record of the file is stored.
C3_SkippedOnlyIfFullyStored ==
    \A u \in Uploads :
        (Succeeded(u) /\ upload[u].app = "main" /\ upload[u].duplicates_skipped > 0)
        => MainRows(upload[u].file) \subseteq Rows(transactions)

\* C4: when a file without work order id has been uploaded with success, a
\* later upload of a file without work order id and with the same
\* transactions counts every record as a duplicate and inserts nothing.
C4_SameFieldsAreDuplicates ==
    [][\A u1, u2 \in Uploads :
          (/\ Succeeded(u1) /\ Arriving(u2)
           /\ Accepted(upload'[u2].file, 200)
           /\ Falsy(WorkOrderId(Docs[upload[u1].file]))
           /\ Falsy(WorkOrderId(Docs[upload'[u2].file]))
           /\ Extract(Docs[upload[u1].file]) = Extract(Docs[upload'[u2].file]))
          => /\ upload'[u2].duplicates_skipped = upload'[u2].total_transactions
             /\ upload'[u2].processed_transactions = <<>>
             /\ upload'[u2].pc = "done"
             /\ transactions' = transactions]_vars

\* C5: when the insert of the chunk at offset i = 500 * (k - 1) fails, storage
\* keeps the rows of the chunks before it and gets none of the failing one,
\* the request ends with the storage error, and the response reports the
\* saved count i.
C5_FailedChunk ==
    [][\A u \in Uploads :
          (/\ upload[u].pc = "insert" /\ upload[u].app = "main"
           /\ upload'[u].pc = "done"
           /\ upload'[u].response.kind = "HTTPException")
          => LET i == upload[u].i
                 n == Len(transactions)
             IN  /\ transactions' = transactions
                 /\ n >= i
                 /\ SubSeq(transactions, n - i + 1, n)
                       = SubSeq(upload[u].processed_transactions, 1, i)
                 /\ upload'[u].response.status_code = 500
                 /\ ReportedSaved(upload'[u].response) = i]_vars

\* C6: an upload to main.py with n accepted records and no failing insert
\* inserts them in order in chunks of 500 and a last chunk with the rest,
\* (n + 499) \div 500 inserts in all, each committed by itself, and returns
\* records_saved = n, the number of rows it added.
C6_Chunks ==
    [][\A u \in Uploads :
          (/\ upload[u].pc = "insert" /\ upload[u].app = "main"
           /\ upload'[u] # upload[u]
           /\ upload'[u].response.kind # "HTTPException")
          => LET rows == upload[u].processed_transactions
                 n == Len(rows)
                 i == upload[u].i
                 size == Min(INSERT_BATCH_SIZE, n - i)
             IN  /\ i % INSERT_BATCH_SIZE = 0
                 /\ upload[u].records_saved = i
                 /\ size > 0
                 /\ transactions' = transactions \o SubSeq(rows, i + 1, i + size)
                 /\ upload'[u].records_saved = i + size
                 /\ IF i + size < n
                    THEN /\ size = INSERT_BATCH_SIZE
                         /\ upload'[u].pc = "insert"
                         /\ upload'[u].i = i + INSERT_BATCH_SIZE
                    ELSE /\ upload'[u].pc = "done"
                         /\ (i \div INSERT_BATCH_SIZE) + 1
                               = (n + INSERT_BATCH_SIZE - 1) \div INSERT_BATCH_SIZE
                         /\ n = upload[u].total_transactions
                         /\ upload'[u].response.kind = "FileUploadResponse"
                         /\ upload'[u].response.records_saved = n]_vars

C6_Witness ==
    \E u \in Uploads :
        /\ Succeeded(u) /\ upload[u].app = "main"
        /\ upload[u].total_transactions = 1200
        /\ upload[u].i = 1000
        /\ upload[u].response.records_saved = 1200
        /\ Len(transactions) >= 1200

\* C7: the reveal length is decided from storage as it is when the upload
\* arrives: the rows of the upload carry the 5-character mask of the first
\* raw account number if its 4-character mask is stored, the 4-character
\* mask otherwise.
C7_RevealFromStorage ==
    [][\A u \in Uploads :
          (Arriving(u) /\ upload'[u].app = "main" /\ upload'[u].pc = "insert")
          => LET first == Extract(Docs[upload'[u].file])[1].account_number
                 masked_4 == mask_account_number(first, FALSE)
                 seen == \E k \in 1..Len(transactions) :
                             transactions[k].masked_account_number = masked_4
                 rows == upload'[u].processed_transactions
             IN  \A k \in 1..Len(rows) :
                     rows[k].masked_account_number
                         = mask_account_number(first, seen)]_vars

HasPlaceholder(s) == \E k \in 1..Len(s) : Lower(s[k]) = "x"

\* the masking policy for an input the policy reads as t
MaskPolicy(input, t, exists_in_db, masked) ==
    LET shown == IF exists_in_db THEN 5 ELSE 4
    IN  /\ (input = Absent \/ input = <<>>) => masked = Absent
        /\ (input # Absent /\ input # <<>> /\ Len(t) <= 4) => masked = t
        /\ (input # Absent /\ Len(t) > 5 /\ ~HasPlaceholder(t))
              => /\ masked # Absent
                 /\ Len(masked) = Len(t)
                 /\ \A k \in 1..Len(t) :
                       masked[k] = IF k > Len(t) - shown THEN t[k] ELSE "X"

\* C8 as stated: the policy holds of the input as given.
C8_PolicyOnRawInput ==
    mask.stage = 1 =>
        MaskPolicy(mask.account_number, mask.account_number, mask.exists_in_db,
                   mask.masked)

\* C8 as amended: the policy holds of the input with leading and trailing
\* whitespace removed.
C8_PolicyOnStrippedInput ==
    mask.stage = 1 =>
        MaskPolicy(mask.account_number,
                   IF mask.account_number = Absent THEN <<>>
                   ELSE Strip(mask.account_number),
                   mask.exists_in_db, mask.masked)

C8_Witness ==
    /\ mask.stage = 1 /\ mask.exists_in_db
    /\ mask.account_number = <<"1", "2", "1", "2", "2", "1">>
    /\ mask.masked = <<"X", "2", "1", "2", "2", "1">>

\* C9: masking the result of a masking again, with either flag, returns it
\* as it is.
C9_Idempotent == mask.stage = 2 => mask.masked = mask.account_number

\* C10: no row handed to the insert and no stored row has the raw account
\* number or the raw address.
C10_NoRawFields ==
    /\ \A u \in Uploads :
          \A row \in Rows(upload[u].processed_transactions) :
              DOMAIN row \cap {"account_number", "account_address"} = {}
    /\ \A row \in Rows(transactions) :
          DOMAIN row \cap {"account_number", "account_address"} = {}

C10_Witness ==
    /\ \E u \in Uploads : upload[u].pc = "insert" /\ upload[u].processed_transactions # <<>>
    /\ transactions # <<>>

Incoming(u) == Docs[upload'[u].file]

\* C12: an upload whose bytes are empty or do not parse to a JSON object
\* (bad JSON, bytes that are not UTF-8, JSON whose top level is no object)
\* is rejected with status 400, processes no record, sends no query to
\* storage and leaves storage as it is.
C12_MalformedIs400 ==
    [][\A u \in Uploads :
          (/\ Arriving(u)
           /\ Incoming(u).filename_json
           /\ Incoming(u).contents \in {"empty", "bad_json", "bad_utf8", "array"})
          => /\ upload'[u].pc = "done"
             /\ upload'[u].response.kind = "HTTPException"
             /\ upload'[u].response.status_code = 400
             /\ upload'[u].total_transactions = 0
             /\ upload'[u].queries = 0
             /\ transactions' = transactions]_vars

\* the file of request u parses to an object whose A0000 section, if there
\* is one, is an object
Parsed(doc) == doc.filename_json /\ doc.contents = "object" /\ doc.A0000.t # "other"

\* the Xns key is missing or null, or its value is {} or []
AbsentOrEmpty(xns) == xns.t = "none" \/ xns = EmptyObject \/ xns = EmptyList

MissingSection == HTTPException(400, "Required key 'Xns' not found in JSON file")

OtherShape(xns) == xns.t = "scalar" \/ xns = NoArrays \/ xns = NoMarker

\* C14: a parsed document whose Xns is non-empty and of neither dialect is
\* rejected with the "Unexpected type for 'Xns'" rejection.
C14_UnsupportedDialect ==
    [][\A u \in Uploads :
          (Arriving(u) /\ Parsed(Incoming(u)) /\ OtherShape(Incoming(u).Xns))
          => upload'[u].response = HTTPException(400, "Unexpected type for 'Xns'")]_vars

\* the extraction of the document runs and yields no record
ExtractsNothing(doc) ==
    /\ Parsed(doc) /\ ~XnsFalsy(doc.Xns) /\ doc.Xns.t \in {"dict", "list"}
    /\ Extract(doc) = <<>>

\* C15: an upload whose extraction yields no record ends in an error (an
\* exception answered with an error status), never in a success, and sends
\* no query to storage and writes nothing.
C15_EmptyResultIsError ==
    [][\A u \in Uploads :
          (Arriving(u) /\ ExtractsNothing(Incoming(u)))
          => /\ upload'[u].pc = "done"
             /\ upload'[u].response.kind = "HTTPException"
             /\ upload'[u].response.status_code >= 400
             /\ upload'[u].queries = 0
             /\ transactions' = transactions]_vars

\* the fields of a columnar object that hold arrays (note is the scalar
\* field of the documents above)
ArrayFields(cols) == DOMAIN cols \ {"note"}

\* a columnar document as C16 describes it: the arrays of Xns have one
\* length and MetaData is an object
EqualArrays(doc) ==
    /\ Parsed(doc) /\ doc.Xns.t = "dict" /\ doc.MetaData.t = "dict"
    /\ \A c, e \in ArrayFields(doc.Xns.cols) :
          Len(doc.Xns.cols[c]) = Len(doc.Xns.cols[e])

\* and further every column the extraction reads is there and the address
\* of MetaData is a string or absent
AllColumns(doc) ==
    /\ EqualArrays(doc)
    /\ XnsColumns \subseteq DOMAIN doc.Xns.cols
    /\ "account_address" \in DOMAIN doc.MetaData.f
          => doc.MetaData.f["account_address"] # NotAString

\* the extraction of a document of the given kind yields one record per
\* date, and that number is the total of the upload and the
\* records_processed of its success response
OnePerDate(kind(_)) ==
    \A u \in Uploads :
        /\ (Arriving(u) /\ kind(Incoming(u)))
           => /\ Len(Extract(Incoming(u))) = NumDates(Incoming(u).Xns.cols)
              /\ upload'[u].pc = "insert"
                    => upload'[u].total_transactions = NumDates(Incoming(u).Xns.cols)
        /\ (upload'[u].response.kind = "FileUploadResponse" /\ kind(Incoming(u)))
           => upload'[u].response.records_processed = NumDates(Incoming(u).Xns.cols)

\* C16 as stated: every columnar document whose arrays have one length and
\* whose MetaData is an object yields one record per entry of date, reported
\* as records_processed.
C16_OnePerDate == [][OnePerDate(EqualArrays)]_vars

\* C16 as amended: the same of the documents that moreover hold every
\* column the extraction reads and whose address is a string or absent.
C16_OnePerDateAllColumns == [][OnePerDate(AllColumns)]_vars

\* an upload of the two-record columnar document has succeeded
C16_Witness ==
    \E u \in Uploads :
        /\ Succeeded(u) /\ Docs[upload[u].file].Xns = TwoTxns
        /\ AllColumns(Docs[upload[u].file])
        /\ upload[u].response.records_processed = 2

\* an element of the outer list that is an object with a marker-prefixed key
MarkerBearing(item) ==
    item.t = "dict" /\ \E k \in 1..Len(item.entries) : IsMarkerKey(item.entries[k].key)

\* the metadata index the loop holds when it comes to element j of the list
IndexAt(doc, j) ==
    AfterItems(doc.client_name, WorkOrderId(doc), doc.MetaData, doc.Xns.items, j - 1).id

\* C17: in every uploaded nested-list document, the metadata index used for
\* a marker-bearing element is the number of marker-bearing elements before
\* it, whatever the elements before it are.
C17_IndexCountsMarkers ==
    \A u \in Uploads :
        (upload[u].pc # "idle" /\ Parsed(Docs[upload[u].file])
                               /\ Docs[upload[u].file].Xns.t = "list")
        => LET doc == Docs[upload[u].file]
               items == doc.Xns.items
           IN  \A j \in 1..Len(items) :
                   MarkerBearing(items[j])
                   => IndexAt(doc, j)
                        = Cardinality({k \in 1..(j - 1) : MarkerBearing(items[k])})

\* the records of a columnar document whose extraction raises no error
Extractable(doc) ==
    {idx \in 1..NumDates(doc.Xns.cols) : ColumnsReach(doc.Xns.cols, XnsColumns, idx)}

\* a columnar document some of whose records can be extracted and some not
PartlyExtractable(doc) ==
    /\ Parsed(doc) /\ doc.Xns.t = "dict" /\ doc.MetaData = ScalarMeta
    /\ Extractable(doc) # {}
    /\ Extractable(doc) # 1..NumDates(doc.Xns.cols)

\* C18: when the extraction of some records of a document raises an error,
\* the upload goes on to persist every record that can be extracted and
\* counts each record that cannot among its failures.
C18_FailurePerRecord ==
    [][\A u \in Uploads :
          (Arriving(u) /\ PartlyExtractable(Incoming(u)) /\ transactions = <<>>)
          => /\ upload'[u].pc = "insert"
             /\ Len(upload'[u].processed_transactions)
                   = Cardinality(Extractable(Incoming(u)))
             /\ upload'[u].errors
                   = NumDates(Incoming(u).Xns.cols) - Cardinality(Extractable(Incoming(u)))]_vars

\* the number of stored rows equal to row
Copies(row) == Cardinality({k \in 1..Len(transactions) : transactions[k] = row})

\* both requests are uploads of file d to main.py that were accepted as new
\* and have saved all its records
BothSaved(u, v, d) ==
    /\ u # v
    /\ \A w \in {u, v} :
          /\ Succeeded(w) /\ upload[w].app = "main" /\ upload[w].file = d
          /\ upload[w].duplicates_skipped = 0
          /\ upload[w].records_saved = upload[w].total_transactions

\* C19: the batch-existence check of main.py looks at the rows stored when
\* the request arrives and at nothing else (an upload with a non-empty work
\* order id is accepted as new exactly when no stored row has that id,
\* whatever other requests are between their check and their commit), so
\* two uploads of one document can both be accepted as new; when both have
\* saved their records, storage holds every record of the document twice.
C19_CheckThenInsert ==
    [][/\ \A u \in Uploads :
             (/\ Arriving(u) /\ upload'[u].app = "main"
              /\ Accepted(upload'[u].file, 200)
              /\ ~Falsy(WorkOrderId(Incoming(u))))
             => (upload'[u].pc = "insert"
                   <=> ~\E k \in 1..Len(transactions) :
                          transactions[k].work_order_id = WorkOrderId(Incoming(u)))
       /\ \A u, v \in Uploads : \A d \in Catalog :
             (BothSaved(u, v, d) /\ ~Falsy(WorkOrderId(Docs[d])))
             => \A row \in MainRows(d) : Copies(row) >= 2]_vars

\* two uploads of the document of work order W1 were both accepted as new
\* and storage holds its two records twice
C19_Witness ==
    \E u, v \in Uploads :
        /\ BothSaved(u, v, 1)
        /\ WorkOrderId(Docs[1]) = "W1"
        /\ \A row \in MainRows(1) : Copies(row) = 2
        /\ Len(transactions) = 4

\* C20: every record an upload has accepted for persistence and every
\* stored row has an amount.
C20_AmountPresent ==
    /\ \A k \in 1..Len(transactions) : transactions[k].amount # None
    /\ \A u \in Uploads :
          \A k \in 1..Len(upload[u].processed_transactions) :
              upload[u].processed_transactions[k].amount # None

\* the fields the duplicate query compares
DedupFields == {"date", "amount", "balance", "charges", "type",
                "masked_account_number", "description", "reference"}

\* field f of txn carries no value: null, or for a text or date field the
\* empty value
NotPresent(txn, f) ==
    IF f = "masked_account_number" THEN txn[f] \in {Absent, <<>>}
    ELSE IF f \in {"amount", "balance", "charges"} THEN txn[f] = None
    ELSE txn[f] \in {None, ""}

\* row equals txn on every compared field that txn carries
MatchesPresent(row, txn) ==
    \A f \in DedupFields : NotPresent(txn, f) \/ row[f] = txn[f]

\* C21: for every record apis.py checks, is_duplicate_transaction is true
\* exactly when some stored row equals the record on every compared field
\* the record carries (the fields it does not carry are not compared), and
\* the records found so are the duplicates the upload skips.
C21_PartialFieldMatch ==
    [][\A u \in Uploads :
          (Arriving(u) /\ upload'[u].app = "apis" /\ Accepted(upload'[u].file, 400))
          => LET all_transactions == Extract(Incoming(u))
                 first_masked_account ==
                     mask_account_number(all_transactions[1].account_number, FALSE)
                 duplicates ==
                     {k \in 1..Len(all_transactions) :
                         \E j \in 1..Len(transactions) :
                             MatchesPresent(transactions[j],
                                 ApisPrepare(all_transactions[k], first_masked_account))}
             IN  /\ \A k \in 1..Len(all_transactions) :
                       is_duplicate_transaction(transactions,
                           ApisPrepare(all_transactions[k], first_masked_account))
                       <=> k \in duplicates
                 /\ upload'[u].duplicates_skipped = Cardinality(duplicates)]_vars

\* the record of file 3, which has no balance and no charges, was skipped as
\* a duplicate of the one stored row, which has both
C21_Witness ==
    \E u \in Uploads :
        /\ Succeeded(u) /\ upload[u].app = "apis" /\ upload[u].file = 3
        /\ upload[u].duplicates_skipped = 1
        /\ Len(transactions) = 1
        /\ transactions[1].balance = "5.0" /\ transactions[1].charges = "1.0"

\* a date value that parses in neither format
Unparseable(s) == s \notin {None, ""} /\ FromIsoFormat(s) = None /\ StrpTime(s) = None

\* C22: a record of an upload to main.py whose date parses in neither
\* format is kept in its place with its date unset and is no error; when
\* the upload has inserted its records, the record is stored with its date
\* unset.
C22_UnparsedDateKept ==
    [][\A u \in Uploads :
          /\ (Arriving(u) /\ upload'[u].app = "main" /\ upload'[u].pc = "insert")
             => LET all_transactions == Extract(Incoming(u))
                    rows == upload'[u].processed_transactions
                IN  \A k \in 1..Len(all_transactions) :
                        Unparseable(all_transactions[k].date)
                        => /\ upload'[u].errors = 0
                           /\ Len(rows) = Len(all_transactions)
                           /\ rows[k].date = None
                           /\ rows[k].reference = all_transactions[k].reference
                           /\ rows[k].amount = all_transactions[k].amount
          /\ (upload[u].pc = "insert" /\ upload[u].app = "main"
                 /\ upload'[u].response.kind = "FileUploadResponse")
             => \A k \in 1..Len(upload[u].processed_transactions) :
                    upload[u].processed_transactions[k].date = None
                    => \E j \in 1..Len(transactions') :
                           transactions'[j] = upload[u].processed_transactions[k]]_vars

\* the second record of the two-account file, whose date is 31/31/2024, is
\* stored with its date unset by an upload without failed records
C22_Witness ==
    /\ \E u \in Uploads :
          /\ Succeeded(u) /\ upload[u].app = "main" /\ upload[u].file = 31
          /\ upload[u].response.records_saved = 2
          /\ upload[u].response.message.failed = 0
    /\ \E j \in 1..Len(transactions) :
          transactions[j].reference = "t2" /\ transactions[j].date = None

\* C23: every record an upload to main.py hands to the insert carries the
\* mask of its own raw account number (with four or with five characters
\* shown).
C23_MaskOfOwnAccount ==
    [][\A u \in Uploads :
          (Arriving(u) /\ upload'[u].app = "main" /\ upload'[u].pc = "insert")
          => LET all_transactions == Extract(Incoming(u))
                 rows == upload'[u].processed_transactions
             IN  \A k \in 1..Len(rows) :
                     rows[k].masked_account_number
                         \in {mask_account_number(all_transactions[k].account_number, FALSE),
                              mask_account_number(all_transactions[k].account_number, TRUE)}]_vars

\* the references of the records of one list element, in the order of its
\* keys and of the array index, from key k on
RECURSIVE EntryReferences(_, _)
EntryReferences(entries, k) ==
    IF k > Len(entries) THEN <<>>
    ELSE (IF IsMarkerKey(entries[k].key) /\ entries[k].value.t = "dict"
          THEN entries[k].value.cols["reference"] ELSE <<>>)
         \o EntryReferences(entries, k + 1)

\* the references of the records of the outer list from element j on
RECURSIVE ListReferences(_, _)
ListReferences(items, j) ==
    IF j > Len(items) THEN <<>>
    ELSE (IF items[j].t = "dict" THEN EntryReferences(items[j].entries, 1) ELSE <<>>)
         \o ListReferences(items, j + 1)

\* the references of the records of a document in input order
InputOrder(doc) ==
    IF doc.Xns.t = "dict" THEN doc.Xns.cols["reference"]
    ELSE ListReferences(doc.Xns.items, 1)

References(rows) == [k \in 1..Len(rows) |-> rows[k].reference]

\* handed holds the elements of extracted it shares with it, in the order of
\* extracted, and extracted is the input order
OrderKept(extracted, handed, input) ==
    /\ extracted = input
    /\ handed = SelectSeq(extracted,
                          LAMBDA x : \E k \in 1..Len(handed) : handed[k] = x)

\* C24: the records extracted from a file uploaded to main.py are in input
\* order, the records handed to the insert are a subsequence of them in
\* that order (the references of one file being different from each other:
\* the extracted records that are handed on, in extracted order), and when
\* the last chunk is inserted the rows the upload has added to storage are
\* the handed records in that order.
C24_OrderPreserved ==
    [][\A u \in Uploads :
          /\ \A d \in OrderCatalog :
                (/\ Arriving(u) /\ upload'[u].app = "main" /\ upload'[u].file = d
                 /\ Accepted(d, 200))
                => OrderKept(References(Extract(Docs[d])),
                             References(upload'[u].processed_transactions),
                             InputOrder(Docs[d]))
          /\ (upload[u].pc = "insert" /\ upload[u].app = "main"
                 /\ upload'[u].response.kind = "FileUploadResponse")
             => LET rows == upload[u].processed_transactions
                    n == Len(rows)
                IN  /\ Len(transactions') >= n
                    /\ SubSeq(transactions', Len(transactions') - n + 1,
                              Len(transactions')) = rows]_vars

\* the four records of the two statements are stored in input order
C24_Witness ==
    /\ \E u \in Uploads :
          /\ Succeeded(u) /\ upload[u].file = 32
          /\ upload[u].response.records_saved = 4
    /\ References(transactions) = <<"s1", "s2", "s3", "s4">>

=============================================================================
